---- MODULE Spec2Model ----
(***************************************************************************)
(* State-machine model of faim_hcs.hcs.converter.ConvertToNGFFPlate and of *)
(* faim_hcs.hcs.cellvoyager.StackedTile.load_data.                         *)
(*                                                                         *)
(* Three specifications share the module:                                  *)
(*   Spec          the converter: __init__, create_zarr_plate, run and the *)
(*                 per-well steps of run, cut at every blocking wait;      *)
(*   SpecTile      StackedTile.load_data on bounded stacks of planes;      *)
(*   SpecOutChunks the pure function _out_chunks on bounded inputs.        *)
(*                                                                         *)
(* Arrays are modelled by their shape (a tuple of axis lengths) and by the *)
(* chunk shape they were rechunked to; pixel values matter only for        *)
(* load_data, where a plane is a tuple of pixels of an unsigned dtype.     *)
(***************************************************************************)
EXTENDS Integers, Sequences, FiniteSets, TLC

VARIABLES
    \* ---- ConvertToNGFFPlate ------------------------------------------
    pc,               \* position of the driving thread
    error,            \* the exception that ended the call, or "none"
    yx_binning,       \* self._yx_binning
    chunks,           \* run(chunks=...)
    max_layer,        \* run(max_layer=...)
    storage_options,  \* run(storage_options=...): None or <<dict>>
    acq,              \* what the plate acquisition has answered so far
    plate_exists,     \* os.path.exists(plate_path)
    plate_attrs,      \* attributes of the plate group on disk
    returned,         \* the calls of create_zarr_plate so far: the argument,
                      \* the store of the returned handle and its attributes
    well,             \* index of the well acquisition run() is working on
    well_group,       \* well -> the group row/col/sub_group exists
    well_meta,        \* well -> write_well_metadata has been called
    levels,           \* well -> level -> array in the store
    group_attrs,      \* well -> attributes of the field group
    tiles_loaded,     \* number of Tile.load_data() calls made so far
    image,            \* the lazy array the driver holds
    graph,            \* the last downsample graph built: its level and input
    rechunk_req,      \* arguments of the last rechunk call
    shapes,           \* _build_pyramid's local list
    datasets,         \* _build_pyramid's local list
    path,             \* _build_pyramid's loop variable
    failures,         \* persists the engine has failed so far
    \* ---- StackedTile -------------------------------------------------
    tile,             \* the StackedTile: paths, correction matrices
    tile_pc,          \* "idle", "constructed", "loaded" or "raised"
    data,             \* the array load_data returned
    \* ---- _out_chunks -------------------------------------------------
    oc_shape, oc_chunks, oc_result

convVars == <<pc, error, yx_binning, chunks, max_layer, storage_options, acq,
              plate_exists, plate_attrs, returned, well, well_group, well_meta,
              levels, group_attrs, tiles_loaded, image, graph, rechunk_req,
              shapes, datasets, path, failures>>
tileVars == <<tile, tile_pc, data>>
ocVars   == <<oc_shape, oc_chunks, oc_result>>
vars     == <<convVars, tileVars, ocVars>>

(***************************************************************************)
(* Bounds of the model.                                                    *)
(***************************************************************************)
MaxLayer    == 2   \* max_layer is drawn from 0..MaxLayer
NWells      == 2   \* well acquisitions of the plate
MaxCreate   == 2   \* calls of create_zarr_plate before run
MaxFailures == 1   \* persists the execution engine may fail in one run
MaxPlanes   == 3   \* planes of a StackedTile
MaxAxes     == 5   \* axes of an array handed to _out_chunks

(***************************************************************************)
(* Python values.                                                          *)
(***************************************************************************)
\* Optional[x]: None is the empty tuple, a present value x is <<x>>.
None == <<>>

Some(x) == <<x>>

\* (1,) * n; a negative n gives the empty tuple, as in Python.
Ones(n) == [i \in 1..n |-> 1]

DigitChars == <<"0", "1", "2", "3", "4", "5", "6", "7", "8", "9">>

\* str(n) for n >= 0
RECURSIVE Str(_)
Str(n) == IF n < 10 THEN DigitChars[n + 1]
          ELSE Str(n \div 10) \o DigitChars[(n % 10) + 1]

(***************************************************************************)
(* The configuration and the collaborators of the converter.               *)
(***************************************************************************)
\* The NGFFPlate the converter was constructed with.
ngff_plate == [root_dir   |-> "root",
               name       |-> "plate",
               layout     |-> [rows |-> <<"A", "B", "C">>,
                               cols |-> <<"01", "02", "03">>],
               order_name |-> "order",
               barcode    |-> "barcode"]

\* join(root_dir, name + ".zarr")
plate_path == ngff_plate.root_dir \o "/" \o ngff_plate.name \o ".zarr"

get_rows_and_columns(layout) == <<layout.rows, layout.cols>>

Wells == 1..NWells

RowChars == <<"A", "B", "C">>

\* The name of the i-th well acquisition, as a tuple of characters: A01, B02, ...
WellName(i) == <<RowChars[i], "0", DigitChars[i + 1]>>

\* PlateAcquisition.get_well_names(wells): every well for None, else the
\* wells of the filter, in plate order.
get_well_names(wells) ==
    LET all  == [i \in 1..NWells |-> i]
        kept == IF wells = None THEN all
                ELSE SelectSeq(all, LAMBDA i : i \in wells[1])
    IN [k \in 1..Len(kept) |-> WellName(kept[k])]

\* f"{w[0]}/{w[1:]}"
WellPath(w) == <<Head(w), "/">> \o Tail(w)

\* WellAcquisition.get_coordinate_transformations(max_layer, yx_binning, ndim):
\* one transformation per level; extra is the number of entries by which a
\* faulty generator is off.
get_coordinate_transformations(ml, binning, ndim, extra) ==
    [l \in 1..(ml + 1 + extra) |->
        [scale |-> [a \in 1..ndim |-> IF a >= ndim - 1
                                      THEN binning * (2 ^ (l - 1)) ELSE 1]]]

\* DaskTileStitcher.get_stitched_dask_array: a lazy array of output_shape.
get_stitched_dask_array(output_shape) ==
    [shape |-> output_shape, origin |-> "graph", level |-> 0]

(***************************************************************************)
(* Inputs.                                                                 *)
(***************************************************************************)
BinningInputs == {0, 1, 2}

ChunkInputs == {<<4>>, <<3, 4>>, <<2, 3, 4>>, <<1, 2, 3, 4>>}

StorageOptionInputs ==
    {None,
     Some([compressor |-> "zlib"]),
     Some([compressor |-> "zlib", chunks |-> <<2, 2>>])}

\* get_common_well_shape(): five axes
WellShapes == {<<1, 1, 1, 4097, 4097>>, <<1, 2, 1, 8, 9>>,
               <<1, 2, 3, 5, 4>>, <<1, 1, 2, 3, 6>>}

TileNdims == {2, 3}

TileDataNdims == {2, 3, 4}

WellFilters == {None, Some({1})}

EngineOutcomes == {"finished", "errored", "raised"}

(***************************************************************************)
(* Array shapes.                                                           *)
(***************************************************************************)
\* numpy/dask squeeze(): every axis of length 1 is removed.
squeeze(shape) == SelectSeq(shape, LAMBDA d : d # 1)

\* coarsen without trim_excess: an incomplete trailing block is kept
coarsen_round_up(shape) ==
    [i \in 1..Len(shape) |-> IF i >= Len(shape) - 1 THEN (shape[i] + 1) \div 2
                             ELSE shape[i]]

\* da.coarsen(..., axes={ndim-2: 2, ndim-1: 2}, trim_excess=True)
coarsen(shape) ==
    [i \in 1..Len(shape) |-> IF i >= Len(shape) - 1 THEN shape[i] \div 2
                             ELSE shape[i]]

\* _bin_yx with the factor on axes 2 and 3 instead of 3 and 4
bin_yx_wrong_axes(shape, binning) ==
    IF binning > 1
    THEN [i \in 1..Len(shape) |-> IF i \in {3, 4} THEN shape[i] \div binning
                                  ELSE shape[i] \div 1]
    ELSE shape

\* ConvertToNGFFPlate._bin_yx: axes 0..2 by 1, axes 3 and 4 by the factor.
bin_yx(shape, binning) ==
    IF binning > 1
    THEN [i \in 1..Len(shape) |-> IF i \in {4, 5} THEN shape[i] \div binning
                                  ELSE shape[i] \div 1]
    ELSE shape

\* _out_chunks padding on the right
out_chunks_right_pad(shape, ch) ==
    IF Len(shape) = Len(ch) THEN ch
    ELSE ch \o Ones(Len(shape) - Len(ch))

\* ConvertToNGFFPlate._out_chunks
out_chunks(shape, ch) ==
    IF Len(shape) = Len(ch) THEN ch
    ELSE Ones(Len(shape) - Len(ch)) \o ch

\* ConvertToNGFFPlate._get_storage_options
get_storage_options(so, output_shape, ch) ==
    IF so = None
    THEN [dimension_separator |-> "/",
          compressor          |-> "zstd",
          chunks              |-> out_chunks(output_shape, ch),
          write_empty_chunks  |-> FALSE]
    ELSE so[1]

\* da.from_zarr(url=group.store, component=<level>)
from_zarr(w, lvl) ==
    [shape |-> levels[w][lvl].shape, origin |-> "store", level |-> lvl]

(***************************************************************************)
(* The store.                                                              *)
(***************************************************************************)
EmptyAttrs == [rows |-> <<>>, columns |-> <<>>, wells |-> <<>>, name |-> "",
               field_count |-> 0, order_name |-> "", barcode |-> ""]

NoLevel == [shape |-> <<>>, chunks |-> <<>>, state |-> "absent"]

NoGroupAttrs == [multiscales |-> <<>>, omero |-> FALSE,
                 acquisition_metadata |-> FALSE]

NoGraph == [level |-> 0, input_origin |-> "none", input_level |-> 0,
            input_state |-> "none"]

NoRechunk == [level |-> 0, shape |-> <<>>, chunks |-> <<>>, well |-> 0]

cfgVars   == <<yx_binning, chunks, max_layer, storage_options>>
plateVars == <<plate_exists, plate_attrs, returned>>
wellVars  == <<well_group, well_meta, group_attrs>>
pyrVars   == <<graph, shapes, datasets, path>>

Raise(e) == error' = e /\ pc' = "raised"

ConvInit ==
    /\ pc = "new"
    /\ error = "none"
    /\ yx_binning = 0
    /\ chunks = <<>>
    /\ max_layer = 0
    /\ storage_options = None
    /\ acq = [tile_ndim |-> 0, well_shape |-> <<>>]
    /\ plate_exists = FALSE
    /\ plate_attrs = EmptyAttrs
    /\ returned = <<>>
    /\ well = 0
    /\ well_group = [w \in Wells |-> FALSE]
    /\ well_meta = [w \in Wells |-> FALSE]
    /\ levels = [w \in Wells |-> [l \in 0..MaxLayer |-> NoLevel]]
    /\ group_attrs = [w \in Wells |-> NoGroupAttrs]
    /\ tiles_loaded = 0
    /\ image = [shape |-> <<>>, origin |-> "none", level |-> 0]
    /\ graph = NoGraph
    /\ rechunk_req = NoRechunk
    /\ shapes = <<>>
    /\ datasets = <<>>
    /\ path = 0
    /\ failures = 0

TileIdle ==
    /\ tile = [paths |-> <<>>, bg |-> None, ic |-> None]
    /\ tile_pc = "idle"
    /\ data = <<>>

OcIdle == oc_shape = <<>> /\ oc_chunks = <<>> /\ oc_result = <<>>

(***************************************************************************)
(* ConvertToNGFFPlate.__init__                                             *)
(***************************************************************************)
init(binning) ==
    /\ pc = "new"
    /\ UNCHANGED <<tileVars, ocVars>>
    /\ IF binning >= 1
       THEN /\ yx_binning' = binning
            /\ pc' = "constructed"
            /\ UNCHANGED error
       ELSE /\ Raise("AssertionError: yx_binning")
            /\ UNCHANGED yx_binning
    /\ UNCHANGED <<chunks, max_layer, storage_options, acq, plateVars, well,
                   wellVars, levels, tiles_loaded, image, rechunk_req,
                   pyrVars, failures>>

\* create_zarr_plate that writes the plate metadata on every call
create_zarr_plate_reinit(wells) ==
    /\ pc = "constructed"
    /\ UNCHANGED <<tileVars, ocVars>>
    /\ Len(returned) < MaxCreate
    /\ LET rc == get_rows_and_columns(ngff_plate.layout)
           names == get_well_names(wells)
       IN /\ plate_exists' = TRUE
          /\ plate_attrs' =
                [rows        |-> rc[1],
                 columns     |-> rc[2],
                 wells       |-> [k \in 1..Len(names) |-> WellPath(names[k])],
                 name        |-> ngff_plate.name,
                 field_count |-> 1,
                 order_name  |-> ngff_plate.order_name,
                 barcode     |-> ngff_plate.barcode]
    /\ returned' = Append(returned, [store |-> plate_path, wells |-> wells,
                                     attrs |-> plate_attrs'])
    /\ UNCHANGED <<pc, error, cfgVars, acq, well, wellVars, levels,
                   tiles_loaded, image, rechunk_req, pyrVars, failures>>

(***************************************************************************)
(* ConvertToNGFFPlate.create_zarr_plate                                    *)
(***************************************************************************)
create_zarr_plate(wells) ==
    /\ pc = "constructed"
    /\ UNCHANGED <<tileVars, ocVars>>
    /\ Len(returned) < MaxCreate
    /\ IF ~plate_exists
       THEN LET rc == get_rows_and_columns(ngff_plate.layout)
                names == get_well_names(wells)
            IN /\ plate_exists' = TRUE
               /\ plate_attrs' =
                     [rows        |-> rc[1],
                      columns     |-> rc[2],
                      wells       |-> [k \in 1..Len(names) |-> WellPath(names[k])],
                      name        |-> ngff_plate.name,
                      field_count |-> 1,
                      order_name  |-> ngff_plate.order_name,
                      barcode     |-> ngff_plate.barcode]
       ELSE UNCHANGED <<plate_exists, plate_attrs>>
    /\ returned' = Append(returned, [store |-> plate_path, wells |-> wells,
                                     attrs |-> plate_attrs'])
    /\ UNCHANGED <<pc, error, cfgVars, acq, well, wellVars, levels,
                   tiles_loaded, image, rechunk_req, pyrVars, failures>>

\* run with the assertions on chunks made inside the loop over the wells,
\* after the first well group was created
run_begin_assert_late(ch, ml, so, tile_ndim) ==
    /\ pc = "constructed"
    /\ UNCHANGED <<tileVars, ocVars>>
    /\ Len(returned) >= 1
    /\ chunks' = ch
    /\ max_layer' = ml
    /\ storage_options' = so
    /\ acq' = [acq EXCEPT !.tile_ndim = tile_ndim]
    /\ well' = 1
    /\ well_group' = [well_group EXCEPT ![1] = TRUE]
    /\ well_meta' = [well_meta EXCEPT ![1] = TRUE]
    /\ IF ~(2 <= Len(ch) /\ Len(ch) <= 3)
       THEN Raise("AssertionError: Chunks must be 2D or 3D.")
       ELSE IF Len(ch) # tile_ndim
       THEN Raise("AssertionError: chunks and tile shape")
       ELSE pc' = "stitch" /\ UNCHANGED error
    /\ UNCHANGED <<yx_binning, plateVars, group_attrs, levels, tiles_loaded,
                   image, rechunk_req, pyrVars, failures>>

(***************************************************************************)
(* ConvertToNGFFPlate.run: the assertions on chunks (lines 147-151).       *)
(* tile_ndim is len(get_tiles()[0].shape) of the first well acquisition.   *)
(***************************************************************************)
run_begin(ch, ml, so, tile_ndim) ==
    /\ pc = "constructed"
    /\ UNCHANGED <<tileVars, ocVars>>
    /\ Len(returned) >= 1
    /\ chunks' = ch
    /\ max_layer' = ml
    /\ storage_options' = so
    /\ acq' = [acq EXCEPT !.tile_ndim = tile_ndim]
    /\ IF ~(2 <= Len(ch) /\ Len(ch) <= 3)
       THEN Raise("AssertionError: Chunks must be 2D or 3D.") /\ UNCHANGED well
       ELSE IF Len(ch) # tile_ndim
       THEN Raise("AssertionError: chunks and tile shape") /\ UNCHANGED well
       ELSE pc' = "create_well_group" /\ well' = 1 /\ UNCHANGED error
    /\ UNCHANGED <<yx_binning, plateVars, wellVars, levels, tiles_loaded,
                   image, rechunk_req, pyrVars, failures>>

(***************************************************************************)
(* ConvertToNGFFPlate._create_well_group                                   *)
(***************************************************************************)
create_well_group ==
    /\ pc = "create_well_group"
    /\ UNCHANGED <<tileVars, ocVars>>
    /\ well_group' = [well_group EXCEPT ![well] = TRUE]
    /\ well_meta' = [well_meta EXCEPT ![well] = TRUE]
    /\ pc' = "stitch"
    /\ UNCHANGED <<error, cfgVars, acq, plateVars, well, group_attrs, levels,
                   tiles_loaded, image, rechunk_req, pyrVars, failures>>

(***************************************************************************)
(* ConvertToNGFFPlate._stitch_well_image, called from                      *)
(* _write_stitched_image (lines 219-223): it loads the first tile to learn *)
(* the dimensionality of the tile data.  Every well of a plate has the     *)
(* common well shape.                                                      *)
(***************************************************************************)
stitch_well_image(tile_data_ndims, output_shape) ==
    /\ pc = "stitch"
    /\ UNCHANGED <<tileVars, ocVars>>
    /\ acq.well_shape \in {<<>>, output_shape}
    /\ acq' = [acq EXCEPT !.well_shape = output_shape]
    /\ tiles_loaded' = tiles_loaded + 1
    /\ IF tile_data_ndims = 2
       THEN /\ image' = get_stitched_dask_array(output_shape)
            /\ pc' = "write_stitched_image"
            /\ UNCHANGED error
       ELSE IF tile_data_ndims = 3
       THEN IF Len(chunks) >= 3
            THEN /\ image' = get_stitched_dask_array(output_shape)
                 /\ pc' = "write_stitched_image"
                 /\ UNCHANGED error
            ELSE Raise("IndexError: chunks[-3]") /\ UNCHANGED image
       ELSE Raise("NotImplementedError: Tile data must be 2D or 3D.")
            /\ UNCHANGED image
    /\ UNCHANGED <<cfgVars, plateVars, well, wellVars, levels, rechunk_req,
                   pyrVars, failures>>

(***************************************************************************)
(* ConvertToNGFFPlate._write_stitched_image, lines 224-240: bin, squeeze,  *)
(* rechunk, and submit the write of level 0.  rechunk raises when the      *)
(* chunk shape and the array differ in their number of axes; to_zarr with  *)
(* compute=False creates the (still empty) array in the store.             *)
(***************************************************************************)
write_stitched_image_submit ==
    /\ pc = "write_stitched_image"
    /\ UNCHANGED <<tileVars, ocVars>>
    /\ LET binned == squeeze(bin_yx(image.shape, yx_binning))
           oc     == out_chunks(binned, chunks)
       IN /\ rechunk_req' = [level |-> 0, shape |-> binned, chunks |-> oc,
                             well |-> well]
          /\ IF Len(oc) # Len(binned)
             THEN Raise("ValueError: rechunk") /\ UNCHANGED <<image, levels>>
             ELSE /\ image' = [shape |-> binned, origin |-> "graph", level |-> 0]
                  /\ levels' = [levels EXCEPT ![well][0] =
                        [shape |-> binned, chunks |-> oc, state |-> "created"]]
                  /\ pc' = "wait_level_0"
                  /\ UNCHANGED error
    /\ UNCHANGED <<cfgVars, acq, plateVars, well, wellVars, tiles_loaded,
                   pyrVars, failures>>

(***************************************************************************)
(* wait(self._client.persist(...)): the blocking wait.  The engine either  *)
(* finishes the write, or a task of it fails and wait returns with the     *)
(* failure recorded in the futures it returns, or the call itself raises.  *)
(* The code discards what wait returns (lines 227 and 265).                *)
(***************************************************************************)
wait(lvl, outcome, next_pc) ==
    /\ outcome \in EngineOutcomes
    /\ outcome # "finished" => failures < MaxFailures
    /\ failures' = IF outcome = "finished" THEN failures ELSE failures + 1
    /\ levels' = [levels EXCEPT ![well][lvl].state =
                     IF outcome = "finished" THEN "complete" ELSE "failed"]
    /\ IF outcome = "raised"
       THEN Raise("EngineError")
       ELSE pc' = next_pc /\ UNCHANGED error

write_stitched_image_wait(outcome) ==
    /\ pc = "wait_level_0"
    /\ UNCHANGED <<tileVars, ocVars>>
    /\ wait(0, outcome, "build_pyramid")
    /\ UNCHANGED <<cfgVars, acq, plateVars, well, wellVars, tiles_loaded,
                   image, rechunk_req, pyrVars>>

(***************************************************************************)
(* ConvertToNGFFPlate._build_pyramid                                       *)
(***************************************************************************)
\* _build_pyramid starting from the in-memory level 0 instead of re-reading it
build_pyramid_begin_in_memory ==
    /\ pc = "build_pyramid"
    /\ UNCHANGED <<tileVars, ocVars>>
    /\ datasets' = <<[path |-> "0"]>>
    /\ shapes' = <<image.shape>>
    /\ path' = 1
    /\ pc' = "pyramid_loop"
    /\ UNCHANGED <<error, cfgVars, acq, plateVars, well, wellVars, levels,
                   tiles_loaded, image, graph, rechunk_req, failures>>

\* lines 250-252
build_pyramid_begin ==
    /\ pc = "build_pyramid"
    /\ UNCHANGED <<tileVars, ocVars>>
    /\ image' = from_zarr(well, 0)
    /\ datasets' = <<[path |-> "0"]>>
    /\ shapes' = <<image'.shape>>
    /\ path' = 1
    /\ pc' = "pyramid_loop"
    /\ UNCHANGED <<error, cfgVars, acq, plateVars, well, wellVars, levels,
                   tiles_loaded, graph, rechunk_req, failures>>

\* lines 254-278: one pass of the loop up to the blocking wait
build_pyramid_level ==
    /\ pc = "pyramid_loop"
    /\ UNCHANGED <<tileVars, ocVars>>
    /\ path <= max_layer
    /\ LET coarse  == coarsen(image.shape)
           options == get_storage_options(storage_options, coarse, chunks)
       IN /\ graph' = [level        |-> path,
                       input_origin |-> image.origin,
                       input_level  |-> image.level,
                       input_state  |-> levels[well][image.level].state]
          /\ IF "chunks" \notin DOMAIN options
             THEN Raise("KeyError: chunks")
                  /\ UNCHANGED <<image, levels, rechunk_req>>
             ELSE /\ rechunk_req' = [level |-> path, shape |-> coarse,
                                     chunks |-> options.chunks, well |-> well]
                  /\ IF Len(options.chunks) # Len(coarse)
                     THEN Raise("ValueError: rechunk")
                          /\ UNCHANGED <<image, levels>>
                     ELSE /\ image' = [shape |-> coarse, origin |-> "graph",
                                       level |-> path]
                          /\ levels' = [levels EXCEPT ![well][path] =
                                [shape |-> coarse, chunks |-> options.chunks,
                                 state |-> "created"]]
                          /\ pc' = "wait_level"
                          /\ UNCHANGED error
    /\ UNCHANGED <<cfgVars, acq, plateVars, well, wellVars, tiles_loaded,
                   shapes, datasets, path, failures>>

\* lines 265-284: the wait returns, the level is recorded and re-read
build_pyramid_wait(outcome) ==
    /\ pc = "wait_level"
    /\ UNCHANGED <<tileVars, ocVars>>
    /\ wait(path, outcome, "pyramid_loop")
    /\ IF outcome = "raised"
       THEN UNCHANGED <<datasets, shapes, image, path>>
       ELSE /\ datasets' = Append(datasets, [path |-> Str(path)])
            /\ shapes' = Append(shapes, image.shape)
            /\ image' = from_zarr(well, path)
            /\ path' = path + 1
    /\ UNCHANGED <<cfgVars, acq, plateVars, well, wellVars, tiles_loaded,
                   graph, rechunk_req>>

\* line 286
build_pyramid_return ==
    /\ pc = "pyramid_loop"
    /\ UNCHANGED <<tileVars, ocVars>>
    /\ path > max_layer
    /\ pc' = "write_metadata"
    /\ UNCHANGED <<error, cfgVars, acq, plateVars, well, wellVars, levels,
                   tiles_loaded, image, rechunk_req, pyrVars, failures>>

(***************************************************************************)
(* ConvertToNGFFPlate._write_metadata, and the step of run's loop to the   *)
(* next well acquisition (lines 153, 177).                                 *)
(***************************************************************************)
write_metadata(extra) ==
    /\ pc = "write_metadata"
    /\ UNCHANGED <<tileVars, ocVars>>
    /\ LET dims == Len(shapes[1])
           coordinate_transformations ==
               get_coordinate_transformations(max_layer, yx_binning, dims, extra)
       IN IF Len(coordinate_transformations) # Len(datasets)
          THEN Raise("ValueError: coordinate transformations")
               /\ UNCHANGED <<group_attrs, well>>
          ELSE /\ group_attrs' = [group_attrs EXCEPT ![well] =
                     [multiscales |->
                         [i \in 1..Len(datasets) |->
                             [path |-> datasets[i].path,
                              coordinateTransformations |->
                                  coordinate_transformations[i]]],
                      omero |-> TRUE,
                      acquisition_metadata |-> TRUE]]
               /\ IF well < NWells
                  THEN well' = well + 1 /\ pc' = "create_well_group"
                  ELSE pc' = "done" /\ UNCHANGED well
               /\ UNCHANGED error
    /\ UNCHANGED <<cfgVars, acq, plateVars, well_group, well_meta, levels,
                   tiles_loaded, image, rechunk_req, pyrVars, failures>>

Init == ConvInit /\ TileIdle /\ OcIdle

Next ==
    \/ \E b \in BinningInputs : init(b)
    \/ \E wells \in WellFilters : create_zarr_plate(wells)
    \/ \E ch \in ChunkInputs, ml \in 0..MaxLayer,
          so \in StorageOptionInputs, nd \in TileNdims :
              run_begin(ch, ml, so, nd)
    \/ create_well_group
    \/ \E nd \in TileDataNdims, s \in WellShapes : stitch_well_image(nd, s)
    \/ write_stitched_image_submit
    \/ \E o \in EngineOutcomes : write_stitched_image_wait(o)
    \/ build_pyramid_begin
    \/ build_pyramid_level
    \/ \E o \in EngineOutcomes : build_pyramid_wait(o)
    \/ build_pyramid_return
    \/ \E x \in {0, 1} : write_metadata(x)

Spec == Init /\ [][Next]_vars

(***************************************************************************)
(* StackedTile.load_data.  A plane is a tuple of pixels of an unsigned     *)
(* dtype; a path is absent (None or empty), or present and readable, or    *)
(* present and unreadable (imread raises).                                 *)
(***************************************************************************)
DtypeModulus == 2 ^ 8

Pixels == 1..2

ZeroPlane == [p \in Pixels |-> 0]

RawPlanes == {<<1, 6>>, <<7, 2>>}

PathEntries ==
    {[present |-> FALSE, readable |-> FALSE, raw |-> ZeroPlane],
     [present |-> TRUE, readable |-> FALSE, raw |-> ZeroPlane]}
    \cup {[present |-> TRUE, readable |-> TRUE, raw |-> r] : r \in RawPlanes}

Tiles ==
    {[paths |-> ps, bg |-> b, ic |-> c] :
        ps \in UNION {[1..k -> PathEntries] : k \in 0..MaxPlanes},
        b \in {None, Some(<<2, 1>>)},
        c \in {None, Some(<<2, 3>>)}}

\* Tile._apply_background_correction: element-wise subtraction in the dtype
apply_background_correction(t, plane) ==
    IF t.bg = None THEN plane
    ELSE [p \in Pixels |-> (plane[p] - t.bg[1][p]) % DtypeModulus]

\* Tile._apply_illumination_correction: element-wise division
apply_illumination_correction(t, plane) ==
    IF t.ic = None THEN plane
    ELSE [p \in Pixels |-> plane[p] \div t.ic[1][p]]

\* data[i] = plane: the assignment casts to the dtype of data
astype(plane) == [p \in Pixels |-> plane[p] % DtypeModulus]

\* the loop body with the two corrections in the reverse order
load_plane_swapped(t, i) ==
    IF t.paths[i].present
    THEN astype(apply_background_correction(t,
                    apply_illumination_correction(t, t.paths[i].raw)))
    ELSE ZeroPlane

\* the body of the loop for one plane (lines 35-39)
load_plane(t, i) ==
    IF t.paths[i].present
    THEN astype(apply_illumination_correction(t,
                    apply_background_correction(t, t.paths[i].raw)))
    ELSE ZeroPlane

\* StackedTile.load_data returns, or imread raises on a present path
load_data ==
    /\ tile_pc = "constructed"
    /\ IF \E i \in 1..Len(tile.paths) :
            tile.paths[i].present /\ ~tile.paths[i].readable
       THEN tile_pc' = "raised" /\ UNCHANGED data
       ELSE /\ data' = [i \in 1..Len(tile.paths) |-> load_plane(tile, i)]
            /\ tile_pc' = "loaded"
    /\ UNCHANGED <<tile, convVars, ocVars>>

TileInit == tile \in Tiles /\ tile_pc = "constructed" /\ data = <<>>

InitTile == ConvInit /\ TileInit /\ OcIdle

NextTile == load_data

SpecTile == InitTile /\ [][NextTile]_vars

(***************************************************************************)
(* ConvertToNGFFPlate._out_chunks applied to bounded inputs.               *)
(***************************************************************************)
OcShapes == UNION {[1..n -> {1, 7}] : n \in 1..MaxAxes}

OcChunks == UNION {[1..m -> {3, 4}] : m \in 1..3}

apply_out_chunks ==
    /\ oc_result = <<>>
    /\ oc_result' = out_chunks(oc_shape, oc_chunks)
    /\ UNCHANGED <<oc_shape, oc_chunks, convVars, tileVars>>

OcInit == oc_shape \in OcShapes /\ oc_chunks \in OcChunks /\ oc_result = <<>>

InitOutChunks == ConvInit /\ TileIdle /\ OcInit

NextOutChunks == apply_out_chunks

SpecOutChunks == InitOutChunks /\ [][NextOutChunks]_vars

(***************************************************************************)
(* Properties.                                                             *)
(***************************************************************************)
\* a shape with its last two axes halved (rounding down), the others kept
Halved(a, b) ==
    /\ Len(b) = Len(a)
    /\ \A k \in 1..Len(a) :
          b[k] = IF k >= Len(a) - 1 THEN a[k] \div 2 ELSE a[k]

\* C1: when _build_pyramid returns, shapes and datasets have max_layer + 1
\* entries, shapes[0] is the shape of level 0 in the store, datasets[i].path
\* is str(i), and every shape is the one before it with its last two axes
\* halved (rounding down) and the other axes unchanged.
C1_PyramidShapes ==
    pc = "write_metadata" =>
        /\ Len(shapes) = max_layer + 1
        /\ Len(datasets) = max_layer + 1
        /\ shapes[1] = levels[well][0].shape
        /\ \A i \in 1..Len(datasets) : datasets[i].path = DigitChars[i]
        /\ \A i \in 1..max_layer : Halved(shapes[i], shapes[i + 1])

C1_Witness ==
    /\ pc = "write_metadata"
    /\ max_layer = 2
    /\ shapes = <<<<4097, 4097>>, <<2048, 2048>>, <<1024, 1024>>>>

\* C2: the downsample graph of level i+1 is built only after the wait on the
\* persist of level i has returned, and its input is level i as re-read from
\* the store, never the in-memory graph that produced level i.
C2_RereadAfterBarrier ==
    graph # NoGraph =>
        /\ graph.input_origin = "store"
        /\ graph.input_level = graph.level - 1
        /\ graph.input_state \in {"complete", "failed"}

C2_Witness ==
    /\ pc = "wait_level"
    /\ graph.level = 2
    /\ graph.input_level = 1
    /\ levels[well][1].state = "complete"

\* C3: if the engine fails while persisting level i of a well, no level
\* j > i of that well is written and the well's multiscale, omero and
\* acquisition metadata are never written.
C3_FailureStopsWell ==
    \A w \in Wells : \A i \in 0..MaxLayer :
        levels[w][i].state = "failed" =>
            /\ \A j \in (i + 1)..MaxLayer : levels[w][j] = NoLevel
            /\ group_attrs[w] = NoGroupAttrs

NoWrite ==
    /\ \A w \in Wells : ~well_group[w] /\ ~well_meta[w]
    /\ \A w \in Wells : \A l \in 0..MaxLayer : levels[w][l] = NoLevel
    /\ \A w \in Wells : group_attrs[w] = NoGroupAttrs

ConfigurationErrors ==
    {"AssertionError: yx_binning",
     "AssertionError: Chunks must be 2D or 3D.",
     "AssertionError: chunks and tile shape",
     "NotImplementedError: Tile data must be 2D or 3D.",
     "ValueError: coordinate transformations"}

\* C4 as claimed: every configuration error is raised before any tile is
\* loaded and before anything is written to the store.
C4_AllConfigErrorsBeforeIO ==
    error \in ConfigurationErrors => tiles_loaded = 0 /\ NoWrite

\* C4 as amended: the errors of the binning factor and of the chunk shape
\* are raised before any tile is loaded and before any write; the error of
\* the tile data dimensionality is raised after the well group and the well
\* metadata of the well are written and a tile is loaded, before any level
\* of that well is written; the coordinate-transformation mismatch is raised
\* after every level 0..max_layer of the well is written, before its
\* metadata.
C4_Amended ==
    /\ error \in {"AssertionError: yx_binning",
                  "AssertionError: Chunks must be 2D or 3D.",
                  "AssertionError: chunks and tile shape"}
          => tiles_loaded = 0 /\ NoWrite
    /\ error = "NotImplementedError: Tile data must be 2D or 3D."
          => /\ well_group[well] /\ well_meta[well]
             /\ tiles_loaded >= 1
             /\ \A l \in 0..MaxLayer : levels[well][l] = NoLevel
             /\ group_attrs[well] = NoGroupAttrs
    /\ error = "ValueError: coordinate transformations"
          => /\ \A l \in 0..max_layer : levels[well][l] # NoLevel
             /\ group_attrs[well] = NoGroupAttrs

C4_Witness ==
    /\ error = "AssertionError: chunks and tile shape"
    /\ plate_exists
    /\ Len(chunks) = 3

\* C5: a second call of create_zarr_plate does not raise, returns a handle
\* to the same store, and leaves the plate metadata as it was after the
\* first call, whatever well filter either call was given.
C5_CreateIdempotent ==
    /\ returned # <<>> /\ pc = "constructed" => error = "none"
    /\ \A k \in 2..Len(returned) :
          /\ returned[k].store = returned[1].store
          /\ returned[k].attrs = returned[1].attrs

C5_Witness ==
    /\ Len(returned) = 2
    /\ returned[1].wells = None
    /\ returned[2].wells # None
    /\ Len(returned[2].attrs.wells) = NWells

\* the stitched shape with its last two axes divided by the binning factor
BinnedWellShape ==
    [i \in 1..Len(acq.well_shape) |->
        IF i >= Len(acq.well_shape) - 1 THEN acq.well_shape[i] \div yx_binning
        ELSE acq.well_shape[i]]

\* C6 as claimed: level 0 has the stitched shape with the last two axes
\* floor-divided by the binning factor and every other axis, size-1 axes
\* included, unchanged.
C6_Level0KeepsAxes ==
    \A w \in Wells :
        levels[w][0] # NoLevel => levels[w][0].shape = BinnedWellShape

\* C6 as amended: level 0 has the stitched shape with the last two axes
\* floor-divided by the binning factor and then every axis of length 1
\* removed, the remaining axes in their order.
C6_Amended ==
    \A w \in Wells :
        levels[w][0] # NoLevel =>
            levels[w][0].shape = SelectSeq(BinnedWellShape, LAMBDA d : d # 1)

C6_Witness ==
    /\ yx_binning = 2
    /\ acq.well_shape = <<1, 1, 1, 4097, 4097>>
    /\ levels[1][0].state = "complete"
    /\ levels[1][0].shape = <<2048, 2048>>

\* C7: load_data returns one plane per source; a plane with a present source
\* is illumination_correction(background_correction(raw)), a plane with an
\* absent source is zero, and load_data raises only for a present source
\* that cannot be read.
C7_LoadData ==
    /\ tile_pc = "loaded" =>
          /\ Len(data) = Len(tile.paths)
          /\ \A i \in 1..Len(tile.paths) :
                data[i] = IF tile.paths[i].present
                          THEN apply_illumination_correction(tile,
                                  apply_background_correction(tile,
                                      tile.paths[i].raw))
                          ELSE [p \in Pixels |-> 0]
    /\ tile_pc = "raised" =>
          \E i \in 1..Len(tile.paths) :
              tile.paths[i].present /\ ~tile.paths[i].readable

C7_Witness ==
    /\ tile_pc = "loaded"
    /\ Len(tile.paths) = 3
    /\ ~tile.paths[2].present
    /\ tile.paths[1].present /\ tile.paths[3].present
    /\ tile.bg # None /\ tile.ic # None
    /\ data[1] # data[2]

\* C8: _out_chunks returns the requested chunk shape when it has as many
\* axes as the array, and with fewer axes a tuple of as many axes as the
\* array whose leading entries are 1 and whose trailing entries are the
\* requested values in order.
C8_OutChunks ==
    oc_result # <<>> =>
        LET n == Len(oc_shape)
            m == Len(oc_chunks)
        IN /\ m = n => oc_result = oc_chunks
           /\ m < n => /\ Len(oc_result) = n
                       /\ \A k \in 1..(n - m) : oc_result[k] = 1
                       /\ \A k \in 1..m : oc_result[n - m + k] = oc_chunks[k]

C8_Witness ==
    /\ oc_result # <<>>
    /\ Len(oc_shape) = 5
    /\ oc_chunks = <<3, 4>>

\* C9: at every level >= 1 the image is rechunked to the caller's chunks
\* left-padded with 1s to the axis count of the level, with or without
\* custom storage options, and custom storage options make no level fail.
C9_PyramidChunkPolicy ==
    /\ error # "KeyError: chunks"
    /\ rechunk_req.level >= 1 =>
          rechunk_req.chunks =
              Ones(Len(rechunk_req.shape) - Len(chunks)) \o chunks

\* C10: in every run that passed the assertions on chunks, the chunk shape
\* a level is rechunked to has as many axes as the array of the level.
C10_ChunkAxesMatchArray ==
    rechunk_req # NoRechunk =>
        Len(rechunk_req.chunks) = Len(rechunk_req.shape)

====
